---- MODULE Spec2Model ----
(***************************************************************************)
(* buildifier driver (src/buildifier/buildifier.go): main, processFiles,   *)
(* processFile and writeTemp, as one state machine.  The main goroutine    *)
(* feeds file names to nworker worker goroutines over the unbuffered       *)
(* channel `in`; every worker runs processFile on each name it receives.   *)
(*                                                                         *)
(* The packages build (Parse, Format, Rewrite) and differ are imported by  *)
(* the driver but are not part of the sources at hand, so they are         *)
(* modelled from the design document: a text is a sequence of tokens, a    *)
(* File is the sequence of its statements plus a Path.                     *)
(*                                                                         *)
(* NewBuildFile (src/core/builder.go) and its test are a second state      *)
(* machine, on texts given token by token; the log report of check mode    *)
(* is also run on its own, on every log a rewrite can leave.               *)
(***************************************************************************)
EXTENDS Integers, Sequences, FiniteSets, TLC

\* ------------------------------------------------------------------ bounds
\* Most listed files and worker goroutines together: two workers on two
\* files, one worker on three files, three workers on one file.
MaxLoad == 4
\* Longest command-line file list, largest value of runtime.NumCPU().
MaxFiles == MaxLoad - 1
MaxCPU == MaxLoad - 1
\* Longest text read from standard input.
MaxLen == 3

\* ------------------------------------------------- texts, build.Parse etc.
\* Tokens of a text: blank-line trivia, two statements, a malformed token.
Blank == 0
Items == {1, 2}
Malformed == 3
Tokens == {Blank, Malformed} \cup Items

RECURSIVE SeqsUpTo(_, _)
SeqsUpTo(S, n) ==
    IF n = 0 THEN {<<>>}
    ELSE LET shorter == SeqsUpTo(S, n - 1)
         IN  shorter \cup {Append(s, x) : s \in {t \in shorter : Len(t) = n - 1}, x \in S}

Texts == SeqsUpTo(Tokens, MaxLen)

Range(s) == {s[i] : i \in 1..Len(s)}

NoFile == [Path |-> "", stmts |-> <<>>]

\* Parse(path, bytes): a SyntaxError and no File on a malformed token,
\* otherwise the File of the statements, trivia dropped, with its path.
Parse(filename, data) ==
    IF Malformed \in Range(data)
    THEN [ok |-> FALSE, f |-> NoFile]
    ELSE [ok |-> TRUE,
          f  |-> [Path |-> filename, stmts |-> SelectSeq(data, LAMBDA t : t # Blank)]]

\* Format(File): the canonical text of the tree, in the tree's current order.
Format(f) == f.stmts

\* The sort pass: insertion sort of the statements.
RECURSIVE Insert(_, _)
Insert(s, x) ==
    IF s = <<>> THEN <<x>>
    ELSE IF x <= Head(s) THEN <<x>> \o s
    ELSE <<Head(s)>> \o Insert(Tail(s), x)

RECURSIVE SortStmts(_)
SortStmts(s) == IF s = <<>> THEN <<>> ELSE Insert(SortStmts(Tail(s)), Head(s))

\* The dedup pass: keep the first occurrence of every statement.
RECURSIVE Dedup(_)
Dedup(s) ==
    IF s = <<>> THEN <<>>
    ELSE LET r == Dedup(SubSeq(s, 1, Len(s) - 1))
         IN  IF s[Len(s)] \in Range(r) THEN r ELSE Append(r, s[Len(s)])

RECURSIVE Repeat(_, _)
Repeat(x, n) == IF n = 0 THEN <<>> ELSE <<x>> \o Repeat(x, n - 1)

\* Contexts the sort pass treats as safe without configuration: every path
\* but the one the -path flag can give.
SortSafe(p) == p # "pkg"

\* Rewrite(File, &info): the passes in their fixed order, each skipped when
\* DisableRewrites names it, each logging what it changed.  The sort pass
\* runs only in a context that is safe or that AllowSort names.
Rewrite(f, disabled, allowed) ==
    LET doSort  == "sort" \notin disabled /\ (SortSafe(f.Path) \/ f.Path \in allowed)
        s1      == IF doSort THEN SortStmts(f.stmts) ELSE f.stmts
        log1    == IF s1 # f.stmts THEN <<"sort">> ELSE <<>>
        s2      == IF "dedup" \notin disabled THEN Dedup(s1) ELSE s1
        log2    == Repeat("dedup", Len(s1) - Len(s2))
    IN  [f |-> [f EXCEPT !.stmts = s2], Log |-> log1 \o log2]

\* strings.Split(*f, ","): the flag values used here hold no comma, so the
\* result is the one-element list of the flag's value ("" included).
Split(flagValue) == {flagValue}

\* --------------------------------------- build.NewBuildFile (core/builder.go)
\* Most names in one attribute's list of a generated rule.
MaxSrcs == 2

\* A token of a text: its kind and, for identifiers and strings, its text.
\* Newlines inside the parentheses of a call are insignificant and left out.
Tok(k, v) == [k |-> k, v |-> v]
EOF == Tok("eof", "")

\* The document NewBuildFile executes its template on, lines 31-36.
CodeDoc == [RuleName |-> "go_library", Attrs |-> [k \in {"srcs"} |-> <<"src.go">>]]

\* Documents of the same shape: a rule name and a map from attribute names
\* to lists of names.
AttrKeys == <<"deps", "srcs">>
Docs ==
    {[RuleName |-> r, Attrs |-> a] :
        r \in {"go_library", "go_binary"},
        a \in UNION {[K -> SeqsUpTo({"src.go", "lib.go"}, MaxSrcs)] :
                        K \in SUBSET Range(AttrKeys)}}

RECURSIVE Flatten(_)
Flatten(ss) == IF ss = <<>> THEN <<>> ELSE Head(ss) \o Flatten(Tail(ss))

\* The template of lines 13-23 executed on a document (line 38): the rule
\* name and "(", then for every attribute, in the order of the keys, the
\* quoted key, ":", "[", every name quoted and followed by ",", "]" and ",",
\* then ")".
Execute(d) ==
    LET keys == SelectSeq(AttrKeys, LAMBDA k : k \in DOMAIN d.Attrs)
        names(k) == Flatten([j \in 1..Len(d.Attrs[k]) |->
                                <<Tok("str", d.Attrs[k][j]), Tok(",", "")>>])
        attr(k) == <<Tok("str", k), Tok(":", ""), Tok("[", "")>> \o names(k)
                      \o <<Tok("]", ""), Tok(",", "")>>
    IN  <<Tok("id", d.RuleName), Tok("(", "")>>
           \o Flatten([j \in 1..Len(keys) |-> attr(keys[j])])
           \o <<Tok(")", "")>>

At(toks, i) == IF i <= Len(toks) THEN toks[i] ELSE EOF

NoNode == [k |-> "", v |-> "", args |-> <<>>]
Failed(i) == [ok |-> FALSE, i |-> i, node |-> NoNode, items |-> <<>>]

\* The parser, by recursive descent.  An expression is a string, an
\* identifier, a call (an identifier and its parenthesized arguments) or a
\* list display; the arguments of a call are keyword attributes, key = value,
\* and positional expressions, separated by "," with an optional trailing
\* ",".  Any other token is unexpected and fails the parse where it stands.
RECURSIVE ParseExpr(_, _)
RECURSIVE ParseSeq(_, _, _, _)
ParseExpr(toks, i) ==
    LET t == At(toks, i)
    IN  CASE t.k = "str" ->
               [ok |-> TRUE, i |-> i + 1, node |-> [k |-> "str", v |-> t.v, args |-> <<>>],
                items |-> <<>>]
          [] t.k = "id" /\ At(toks, i + 1).k # "(" ->
               [ok |-> TRUE, i |-> i + 1, node |-> [k |-> "id", v |-> t.v, args |-> <<>>],
                items |-> <<>>]
          [] t.k = "id" /\ At(toks, i + 1).k = "(" ->
               LET a == ParseSeq(toks, i + 2, ")", TRUE)
               IN  IF a.ok
                   THEN [ok |-> TRUE, i |-> a.i,
                         node |-> [k |-> "call", v |-> t.v, args |-> a.items],
                         items |-> <<>>]
                   ELSE a
          [] t.k = "[" ->
               LET a == ParseSeq(toks, i + 1, "]", FALSE)
               IN  IF a.ok
                   THEN [ok |-> TRUE, i |-> a.i,
                         node |-> [k |-> "list", v |-> "", args |-> <<>>], items |-> <<>>]
                   ELSE a
          [] OTHER -> Failed(i)

\* The elements up to the closing token; kw: key = value is allowed.
ParseSeq(toks, i, close, kw) ==
    IF At(toks, i).k = close THEN [ok |-> TRUE, i |-> i + 1, node |-> NoNode, items |-> <<>>]
    ELSE LET isKw == kw /\ At(toks, i).k = "id" /\ At(toks, i + 1).k = "="
             e    == ParseExpr(toks, IF isKw THEN i + 2 ELSE i)
             item == [key |-> IF isKw THEN At(toks, i).v ELSE "",
                      k |-> e.node.k, v |-> e.node.v]
         IN  IF ~e.ok THEN e
             ELSE IF At(toks, e.i).k = ","
             THEN LET r == ParseSeq(toks, e.i + 1, close, kw)
                  IN  IF r.ok THEN [r EXCEPT !.items = <<item>> \o @] ELSE r
             ELSE IF At(toks, e.i).k = close
             THEN [ok |-> TRUE, i |-> e.i + 1, node |-> NoNode, items |-> <<item>>]
             ELSE Failed(e.i)

RECURSIVE ParseStmts(_, _)
ParseStmts(toks, i) ==
    IF i > Len(toks) THEN [ok |-> TRUE, i |-> i, node |-> NoNode, items |-> <<>>]
    ELSE LET e == ParseExpr(toks, i)
         IN  IF ~e.ok THEN e
             ELSE LET r == ParseStmts(toks, e.i)
                  IN  IF r.ok THEN [r EXCEPT !.items = <<e.node>> \o @] ELSE r

NilFile == [Path |-> "", Stmt |-> <<>>]

\* Parse(path, bytes) on a text given by its tokens: the File of the
\* top-level statements and a nil error, or no File and a SyntaxError with
\* the position of the offending token.
ParseTokens(path, toks) ==
    LET r == ParseStmts(toks, 1)
    IN  IF r.ok
        THEN [file |-> [Path |-> path, Stmt |-> r.items], nil |-> FALSE, err |-> 0]
        ELSE [file |-> NilFile, nil |-> TRUE, err |-> r.i]

\* File.Rules(kind): the top-level calls, in source order, of the kind asked
\* for, or all of them for "".
Rules(f, kind) ==
    SelectSeq(f.Stmt, LAMBDA n : n.k = "call" /\ (kind = "" \/ n.v = kind))

\* Rule.Name(): the string value of the name attribute, else the first
\* positional argument when it is a string, else "".
Name(r) ==
    LET named == SelectSeq(r.args, LAMBDA a : a.key = "name" /\ a.k = "str")
        pos   == SelectSeq(r.args, LAMBDA a : a.key = "")
    IN  IF named # <<>> THEN named[Len(named)].v
        ELSE IF pos # <<>> /\ pos[1].k = "str" THEN pos[1].v
        ELSE ""

\* ------------------------------------------------------------------- state
\* The files of the working directory: one already canonical, one that needs
\* reformatting and sorting, one that needs deduplication only, one with a
\* syntax error, one that cannot be read.
Names == {"canon", "messy", "dups", "bad", "gone"}
DiskInit ==
    [n \in Names |->
        CASE n = "canon" -> [ok |-> TRUE,  bytes |-> <<1, 2>>]
          [] n = "messy" -> [ok |-> TRUE,  bytes |-> <<2, Blank, 1>>]
          [] n = "dups"  -> [ok |-> TRUE,  bytes |-> <<1, 1>>]
          [] n = "bad"   -> [ok |-> TRUE,  bytes |-> <<1, Malformed>>]
          [] OTHER       -> [ok |-> FALSE, bytes |-> <<>>]]

\* The files listed when several workers run.
ListedNames == {"messy", "dups", "bad"}

Workers == 1..MaxCPU

\* The names ioutil.TempFile can return: a fresh one for every call, here
\* the list entry being processed and the side of the diff it is made for.
TempNames == (1..MaxFiles) \X {"out", "in"}
NoName == <<0, "">>

VARIABLES
    flag,            \* the command line: the flags as flag.Parse() leaves them
    mode,            \* *mode, which main rewrites
    args,            \* flag.Args()
    nworker,         \* runtime.NumCPU()
    stdin,           \* what reading os.Stdin yields
    disk,            \* the named files
    DisableRewrites, \* build.DisableRewrites
    AllowSort,       \* build.AllowSort
    cfgWrites,       \* how often the build configuration was assigned
    mainpc,          \* position of the main goroutine
    exitCode,        \* var exitCode
    exitStatus,      \* the status given to os.Exit, -1 while running
    files,           \* processFiles' parameter
    next,            \* index of the next file name the feeder sends on `in`
    inClosed,        \* close(in) has run
    ch,              \* the buffered result channel
    chClosed,        \* close(ch) has run
    wg,              \* the WaitGroup counter
    pc,              \* position of every worker goroutine
    cur,             \* index in files of the name a worker is processing
    loc,             \* processFile's and writeTemp's local variables
    tmp,             \* the temporary files ever created
    toRemove,        \* var toRemove
    shown,           \* the pairs handed to diff.Show
    diffRan,         \* diff.Run() has run
    stderr,          \* the errors processFiles printed
    calls,           \* per list entry: the calls made for it, with the caller
    acts,            \* per list entry: the output actions taken for it
    ended,           \* per list entry: how its run of processFile ended
    doc,             \* NewBuildFile: the document the template is executed on
    genpc,           \* position of TestCanCreateRules and its NewBuildFile call
    b,               \* NewBuildFile: the buffer the template is executed into
    file,            \* TestCanCreateRules: the File NewBuildFile returned
    err,             \* TestCanCreateRules: the error NewBuildFile returned
    rules,           \* TestCanCreateRules: the rules still to range over
    tlog,            \* TestCanCreateRules: what t.Log and t.Fatal recorded
    info,            \* the log report of check mode alone: info.Log
    logIn,           \* the log report alone: info.Log as Rewrite left it
    logOut,          \* the log report alone: the entries reported
    logpc            \* the log report alone: its position

vars == <<flag, mode, args, nworker, stdin, disk, DisableRewrites, AllowSort, cfgWrites,
          mainpc, exitCode, exitStatus, files, next, inClosed, ch, chClosed, wg,
          pc, cur, loc, tmp, toRemove, shown, diffRan, stderr, calls, acts, ended,
          doc, genpc, b, file, err, rules, tlog, info, logIn, logOut, logpc>>

Modes == {"", "check", "diff", "fix", "bogus"}

LocInit ==
    [data |-> <<>>, f |-> NoFile, beforeRewrite |-> <<>>, Log |-> <<>>,
     ndata |-> <<>>, err |-> "", wt |-> "", name |-> NoName, tr |-> <<>>,
     outfile |-> NoName, infile |-> [temp |-> FALSE, name |-> "", id |-> NoName]]

\* No error: the nil error value; a SyntaxError is the position it carries.
NilError == 0

\* NewBuildFile has not been called: the driver does not use it.
InitNoGen ==
    /\ doc = CodeDoc /\ genpc = "idle" /\ b = <<>>
    /\ file = [nil |-> TRUE, f |-> NilFile] /\ err = NilError
    /\ rules = <<>> /\ tlog = <<>>

\* The log report is not run on its own.
InitNoLog == info = <<>> /\ logIn = <<>> /\ logOut = <<>> /\ logpc = "idle"

\* The driver before main runs.
InitDriver ==
    /\ disk = DiskInit
    /\ DisableRewrites = {} /\ AllowSort = {} /\ cfgWrites = 0
    /\ mainpc = "main" /\ exitCode = 0 /\ exitStatus = -1
    /\ files = <<>> /\ next = 1 /\ inClosed = FALSE
    /\ ch = <<>> /\ chClosed = FALSE /\ wg = 0
    /\ pc = [w \in Workers |-> "idle"]
    /\ cur = [w \in Workers |-> 0]
    /\ loc = [w \in Workers |-> LocInit]
    /\ tmp = [n \in TempNames |-> [exists |-> FALSE, bytes |-> <<>>]]
    /\ toRemove = <<>> /\ shown = {} /\ diffRan = FALSE
    /\ stderr = <<>>
    /\ calls = [i \in 1..MaxFiles |-> <<>>]
    /\ acts = [i \in 1..MaxFiles |-> <<>>]
    /\ ended = [i \in 1..MaxFiles |-> ""]
    /\ mode = flag.mode

\* Everything but the command line, the CPU count and the input.
InitRest == InitDriver /\ InitNoGen /\ InitNoLog

\* Standard input is read only when no file is listed.
InitStdin(texts) ==
    IF args = <<>>
    THEN stdin \in [ok : {TRUE}, bytes : texts] \cup {[ok |-> FALSE, bytes |-> <<>>]}
    ELSE stdin = [ok |-> TRUE, bytes |-> <<>>]

\* Several workers on a list of files, in each of the three modes.
Init ==
    /\ flag \in [showlog : {FALSE}, v : {FALSE}, d : {FALSE},
                 mode : {"check", "diff", "fix"}, path : {""},
                 allowsort : {""}, disable : {""}]
    /\ nworker \in 1..MaxCPU
    /\ args \in SeqsUpTo(ListedNames, MaxLoad - nworker)
    /\ InitStdin({<<2, Blank, 1>>})
    /\ InitRest

\* As Init, on lists of a file that needs formatting and a file that cannot
\* be read: every way processFile can end but the syntax error.
InitOutcomes ==
    /\ flag \in [showlog : {FALSE}, v : {FALSE}, d : {FALSE},
                 mode : {"check", "diff", "fix"}, path : {""},
                 allowsort : {""}, disable : {""}]
    /\ nworker \in 1..MaxCPU
    /\ args \in SeqsUpTo({"messy", "gone"}, MaxLoad - nworker)
    /\ InitStdin({<<2, Blank, 1>>, <<1, Malformed>>})
    /\ InitRest

\* Every command line, on one file or on standard input, with one CPU.
InitCli ==
    /\ flag \in [showlog : BOOLEAN, v : BOOLEAN, d : BOOLEAN,
                 mode : Modes, path : {"", "pkg"},
                 allowsort : {"", "pkg"}, disable : {"", "sort"}]
    /\ args \in SeqsUpTo(Names, 1)
    /\ nworker = 1
    /\ InitStdin(Texts)
    /\ InitRest

\* ------------------------------------------------------------ main goroutine
frame_io  == UNCHANGED <<disk, tmp, toRemove, shown, diffRan>>
frame_gen == UNCHANGED <<doc, genpc, b, file, err, rules, tlog>>
frame_log == UNCHANGED <<info, logIn, logOut, logpc>>
frame_in  == UNCHANGED <<flag, args, nworker, stdin>> /\ frame_gen /\ frame_log
frame_cfg == UNCHANGED <<DisableRewrites, AllowSort, cfgWrites>>
frame_chan == UNCHANGED <<files, next, inClosed, ch, chClosed, wg>>
frame_wk  == UNCHANGED <<pc, cur, loc, calls, acts, ended>>

\* main, lines 80-129, up to the call of processFiles: the configuration is
\* passed down, the flags are checked (os.Exit(2) on a usage error), the mode
\* is settled and the file list chosen.
Main ==
    /\ mainpc = "main"
    /\ DisableRewrites' = Split(flag.disable)
    /\ AllowSort' = Split(flag.allowsort)
    /\ cfgWrites' = cfgWrites + 1
    /\ LET both    == flag.d /\ mode # ""
           m1      == IF flag.d THEN "diff" ELSE mode
           unknown == m1 \notin {"", "check", "diff", "fix"}
           m2      == IF m1 = "" THEN "fix" ELSE m1
           onePath == flag.path # "" /\ Len(args) > 1
           m3      == IF Len(args) = 0 /\ m2 = "fix" THEN "pipe" ELSE m2
       IN  IF both \/ unknown \/ onePath
           THEN /\ mainpc' = "exited"
                /\ exitStatus' = 2
                /\ mode' = IF both THEN mode ELSE IF unknown THEN m1 ELSE m2
                /\ files' = files
           ELSE /\ mainpc' = "processFiles"
                /\ exitStatus' = exitStatus
                /\ mode' = m3
                /\ files' = IF Len(args) = 0 THEN <<"stdin">> ELSE args
    /\ UNCHANGED <<exitCode, next, inClosed, ch, chClosed, wg, stderr>>
    /\ frame_in /\ frame_io /\ frame_wk

\* processFiles, lines 150-171: nothing to do for an empty list, otherwise
\* one goroutine per CPU is started, each counted in the WaitGroup.
StartWorkers ==
    /\ mainpc = "processFiles"
    /\ IF Len(files) = 0
       THEN /\ mainpc' = "cleanup"
            /\ UNCHANGED <<wg, pc>>
       ELSE /\ mainpc' = "feed"
            /\ wg' = nworker
            /\ pc' = [w \in Workers |-> IF w <= nworker THEN "recv" ELSE "idle"]
    /\ UNCHANGED <<mode, exitCode, exitStatus, files, next, inClosed, ch, chClosed,
                   stderr, cur, loc, calls, acts, ended>>
    /\ frame_in /\ frame_io /\ frame_cfg

\* Faulty variant of Feed: the name is delivered to every waiting worker.
Feed_Broadcast(w) ==
    /\ mainpc = "feed"
    /\ next <= Len(files)
    /\ pc[w] = "recv"
    /\ next' = next + 1
    /\ cur' = [v \in Workers |-> IF pc[v] = "recv" THEN next ELSE cur[v]]
    /\ pc' = [v \in Workers |-> IF pc[v] = "recv" THEN "read" ELSE pc[v]]
    /\ loc' = loc
    /\ calls' = [calls EXCEPT ![next] = Append(@, [w |-> w, op |-> "processFile"])]
    /\ UNCHANGED <<mode, mainpc, exitCode, exitStatus, files, inClosed, ch, chClosed,
                   wg, stderr, acts, ended>>
    /\ frame_in /\ frame_io /\ frame_cfg

\* `in <- fname` (line 173) meeting `for filename := range in` (line 163):
\* the channel is unbuffered, so the send and the receive are one step.
Feed(w) ==
    /\ mainpc = "feed"
    /\ next <= Len(files)
    /\ pc[w] = "recv"
    /\ next' = next + 1
    /\ cur' = [cur EXCEPT ![w] = next]
    /\ pc' = [pc EXCEPT ![w] = "read"]
    /\ loc' = loc
    /\ calls' = [calls EXCEPT ![next] = Append(@, [w |-> w, op |-> "processFile"])]
    /\ UNCHANGED <<mode, mainpc, exitCode, exitStatus, files, inClosed, ch, chClosed,
                   wg, stderr, acts, ended>>
    /\ frame_in /\ frame_io /\ frame_cfg

\* Faulty variant of CloseIn: the feeder goes on to wg.Wait() without
\* closing the channel.
CloseIn_Missing ==
    /\ mainpc = "feed"
    /\ next > Len(files)
    /\ mainpc' = "wait"
    /\ UNCHANGED <<mode, exitCode, exitStatus, files, next, inClosed, ch, chClosed, wg,
                   stderr>>
    /\ frame_in /\ frame_io /\ frame_cfg /\ frame_wk

\* close(in), line 175.
CloseIn ==
    /\ mainpc = "feed"
    /\ next > Len(files)
    /\ inClosed' = TRUE
    /\ mainpc' = "wait"
    /\ UNCHANGED <<mode, exitCode, exitStatus, files, next, ch, chClosed, wg, stderr>>
    /\ frame_in /\ frame_io /\ frame_cfg /\ frame_wk

\* wg.Wait() returns and close(ch), lines 176-177.
WaitClose ==
    /\ mainpc = "wait"
    /\ wg = 0
    /\ chClosed' = TRUE
    /\ mainpc' = "drain"
    /\ UNCHANGED <<mode, exitCode, exitStatus, files, next, inClosed, ch, wg, stderr>>
    /\ frame_in /\ frame_io /\ frame_cfg /\ frame_wk

\* One round of `for res := range ch`, lines 179-184.
Report ==
    /\ mainpc = "drain"
    /\ ch # <<>>
    /\ stderr' = IF Head(ch).err # "" THEN Append(stderr, Head(ch)) ELSE stderr
    /\ ch' = Tail(ch)
    /\ UNCHANGED <<mode, mainpc, exitCode, exitStatus, files, next, inClosed,
                   chClosed, wg>>
    /\ frame_in /\ frame_io /\ frame_cfg /\ frame_wk

\* The range loop ends on the closed, empty channel; processFiles returns.
DrainDone ==
    /\ mainpc = "drain"
    /\ ch = <<>> /\ chClosed
    /\ mainpc' = "cleanup"
    /\ UNCHANGED <<mode, exitCode, exitStatus, stderr>>
    /\ frame_in /\ frame_io /\ frame_cfg /\ frame_chan /\ frame_wk

\* main, lines 131-135: diff.Run() and the removal of the files of toRemove.
Cleanup ==
    /\ mainpc = "cleanup"
    /\ diffRan' = TRUE
    /\ tmp' = [n \in TempNames |->
                  IF n \in Range(toRemove) THEN [tmp[n] EXCEPT !.exists = FALSE]
                  ELSE tmp[n]]
    /\ mainpc' = "exit"
    /\ UNCHANGED <<mode, exitCode, exitStatus, stderr, disk, toRemove, shown>>
    /\ frame_in /\ frame_cfg /\ frame_chan /\ frame_wk

\* os.Exit(exitCode), line 137.
Exit ==
    /\ mainpc = "exit"
    /\ exitStatus' = exitCode
    /\ mainpc' = "exited"
    /\ UNCHANGED <<mode, exitCode, stderr>>
    /\ frame_in /\ frame_io /\ frame_cfg /\ frame_chan /\ frame_wk

\* ---------------------------------------------------------- worker goroutines
frame_main == UNCHANGED <<mode, mainpc, exitCode, exitStatus, stderr>>
frame_feed == UNCHANGED <<files, next, inClosed, chClosed, wg>>

filename(w) == files[cur[w]]

Act(kind, name, bytes, reformat, log) ==
    [kind |-> kind, name |-> name, bytes |-> bytes, reformat |-> reformat, log |-> log]

Called(w, op) == calls' = [calls EXCEPT ![cur[w]] = Append(@, [w |-> w, op |-> op])]
Acted(w, a)   == acts' = [acts EXCEPT ![cur[w]] = Append(@, a)]
Ended(w, how) == ended' = [ended EXCEPT ![cur[w]] = how]

\* Faulty variant of Source: the goroutine reads the file of the feeder's
\* loop variable, the name sent last, not of the name it received.
Source_Latest(w) == IF files[next - 1] = "stdin" THEN stdin ELSE disk[files[next - 1]]

\* What processFile reads, lines 210-214: standard input for the name
\* "stdin", otherwise the file of the name it was called with.
Source(w) == IF filename(w) = "stdin" THEN stdin ELSE disk[filename(w)]

\* processFile, lines 210-217: the data is read; a read error is returned.
ReadFile(w) ==
    /\ pc[w] = "read"
    /\ LET src == Source(w)
       IN  IF src.ok
           THEN /\ loc' = [loc EXCEPT ![w].data = src.bytes]
                /\ pc' = [pc EXCEPT ![w] = "parse"]
                /\ ended' = ended
           ELSE /\ loc' = [loc EXCEPT ![w].err = "read"]
                /\ pc' = [pc EXCEPT ![w] = "return"]
                /\ Ended(w, "read error")
    /\ UNCHANGED <<ch, cur, calls, acts>>
    /\ frame_main /\ frame_feed /\ frame_in /\ frame_io /\ frame_cfg

\* Faulty variant of ParseFile: the return after a failed Parse is missing.
ParseFile_NoReturn(w) ==
    /\ pc[w] = "parse"
    /\ LET r == Parse(filename(w), loc[w].data)
       IN  /\ loc' = [loc EXCEPT ![w].f = r.f]
           /\ IF r.ok THEN ended' = ended ELSE Ended(w, "syntax error")
    /\ pc' = [pc EXCEPT ![w] = "format1"]
    /\ Called(w, "Parse")
    /\ UNCHANGED <<ch, cur, acts>>
    /\ frame_main /\ frame_feed /\ frame_in /\ frame_io /\ frame_cfg

\* What processFile returns when build.Parse fails, line 222: nil.
ParseFailure == ""

\* processFile, lines 219-223: build.Parse; on a syntax error the file is
\* left alone and processFile returns.
ParseFile(w) ==
    /\ pc[w] = "parse"
    /\ LET r == Parse(filename(w), loc[w].data)
       IN  IF r.ok
           THEN /\ loc' = [loc EXCEPT ![w].f = r.f]
                /\ pc' = [pc EXCEPT ![w] = "format1"]
                /\ ended' = ended
           ELSE /\ loc' = [loc EXCEPT ![w].err = ParseFailure]
                /\ pc' = [pc EXCEPT ![w] = "return"]
                /\ Ended(w, "syntax error")
    /\ Called(w, "Parse")
    /\ UNCHANGED <<ch, cur, acts>>
    /\ frame_main /\ frame_feed /\ frame_in /\ frame_io /\ frame_cfg

\* Faulty variant of FormatBefore: the File is rewritten without the bytes
\* before rewriting having been formatted.
FormatBefore_Skipped(w) ==
    /\ pc[w] = "format1"
    /\ LET r == Rewrite(loc[w].f, DisableRewrites, AllowSort)
       IN  loc' = [loc EXCEPT ![w].f = r.f, ![w].Log = r.Log]
    /\ pc' = [pc EXCEPT ![w] = "format2"]
    /\ Called(w, "Rewrite")
    /\ UNCHANGED <<ch, cur, acts, ended>>
    /\ frame_main /\ frame_feed /\ frame_in /\ frame_io /\ frame_cfg

\* processFile, lines 225-228: the -path flag replaces the File's path, then
\* build.Format gives the bytes before rewriting.
FormatBefore(w) ==
    /\ pc[w] = "format1"
    /\ LET f == IF flag.path # "" THEN [loc[w].f EXCEPT !.Path = flag.path] ELSE loc[w].f
       IN  loc' = [loc EXCEPT ![w].f = f, ![w].beforeRewrite = Format(f)]
    /\ pc' = [pc EXCEPT ![w] = "rewrite"]
    /\ Called(w, "Format")
    /\ UNCHANGED <<ch, cur, acts, ended>>
    /\ frame_main /\ frame_feed /\ frame_in /\ frame_io /\ frame_cfg

\* Faulty variant of RewriteFile: the worker passes the flags down to the
\* build package itself, once per file.
RewriteFile_Reconfigures(w) ==
    /\ pc[w] = "rewrite"
    /\ DisableRewrites' = Split(flag.disable)
    /\ AllowSort' = Split(flag.allowsort)
    /\ cfgWrites' = cfgWrites + 1
    /\ LET r == Rewrite(loc[w].f, DisableRewrites, AllowSort)
       IN  loc' = [loc EXCEPT ![w].f = r.f, ![w].Log = r.Log]
    /\ pc' = [pc EXCEPT ![w] = "format2"]
    /\ Called(w, "Rewrite")
    /\ UNCHANGED <<ch, cur, acts, ended>>
    /\ frame_main /\ frame_feed /\ frame_in /\ frame_io

\* Faulty variant of RewriteFile: the passes run on a copy of the File; the
\* log is kept, the rewritten tree is not.
RewriteFile_OnCopy(w) ==
    /\ pc[w] = "rewrite"
    /\ LET r == Rewrite(loc[w].f, DisableRewrites, AllowSort)
       IN  loc' = [loc EXCEPT ![w].Log = r.Log]
    /\ pc' = [pc EXCEPT ![w] = "format2"]
    /\ Called(w, "Rewrite")
    /\ UNCHANGED <<ch, cur, acts, ended>>
    /\ frame_main /\ frame_feed /\ frame_in /\ frame_io /\ frame_cfg

\* processFile, lines 229-230: build.Rewrite(f, &info).
RewriteFile(w) ==
    /\ pc[w] = "rewrite"
    /\ LET r == Rewrite(loc[w].f, DisableRewrites, AllowSort)
       IN  loc' = [loc EXCEPT ![w].f = r.f, ![w].Log = r.Log]
    /\ pc' = [pc EXCEPT ![w] = "format2"]
    /\ Called(w, "Rewrite")
    /\ UNCHANGED <<ch, cur, acts, ended>>
    /\ frame_main /\ frame_feed /\ frame_in /\ frame_io /\ frame_cfg

\* processFile, line 231: build.Format gives the final bytes.
FormatAfter(w) ==
    /\ pc[w] = "format2"
    /\ loc' = [loc EXCEPT ![w].ndata = Format(loc[w].f)]
    /\ pc' = [pc EXCEPT ![w] = "mode"]
    /\ Called(w, "Format")
    /\ UNCHANGED <<ch, cur, acts, ended>>
    /\ frame_main /\ frame_feed /\ frame_in /\ frame_io /\ frame_cfg

\* sort.Strings on the log: log entries are ordered as strings.
Rank(s) == CASE s = "" -> 0 [] s = "dedup" -> 1 [] OTHER -> 2

RECURSIVE InsertLog(_, _)
InsertLog(s, x) ==
    IF s = <<>> THEN <<x>>
    ELSE IF Rank(x) <= Rank(Head(s)) THEN <<x>> \o s
    ELSE <<Head(s)>> \o InsertLog(Tail(s), x)

RECURSIVE SortStrings(_)
SortStrings(s) == IF s = <<>> THEN <<>> ELSE InsertLog(SortStrings(Tail(s)), Head(s))

\* The loop of lines 247-254: an entry is kept when it differs from `last`.
RECURSIVE UniqFrom(_, _)
UniqFrom(s, last) ==
    IF s = <<>> THEN <<>>
    ELSE IF Head(s) # last THEN <<Head(s)>> \o UniqFrom(Tail(s), Head(s))
    ELSE UniqFrom(Tail(s), last)

\* Faulty variant of Changed: the input is compared with the bytes before
\* rewriting.
Changed_Before(w) == loc[w].data # loc[w].beforeRewrite

\* !bytes.Equal(data, ndata), lines 236, 263 and 289: the final bytes differ
\* from the input.
Changed(w) == loc[w].data # loc[w].ndata

\* Faulty variant of Reformat: the marker is set when the final bytes differ
\* from the input.
Reformat_Final(w) == loc[w].data # loc[w].ndata

\* !bytes.Equal(data, beforeRewrite), lines 238-241: the marker is set when
\* the bytes formatted before rewriting differ from the input.
Reformat(w) == loc[w].data # loc[w].beforeRewrite

\* processFile, lines 234-259, check mode: a file that needs formatting is
\* printed with the reformat marker and, under -showlog, the log.
CheckMode(w) ==
    /\ pc[w] = "mode"
    /\ mode = "check"
    /\ IF Changed(w)
       THEN LET logged == Len(loc[w].Log) > 0 /\ flag.showlog
                sorted == IF logged THEN SortStrings(loc[w].Log) ELSE loc[w].Log
                uniq   == IF logged THEN UniqFrom(sorted, "") ELSE <<>>
            IN  /\ loc' = [loc EXCEPT ![w].Log = sorted]
                /\ Acted(w, Act("check", filename(w), <<>>, Reformat(w), uniq))
       ELSE UNCHANGED <<loc, acts>>
    /\ Ended(w, "ok")
    /\ pc' = [pc EXCEPT ![w] = "return"]
    /\ UNCHANGED <<ch, cur, calls>>
    /\ frame_main /\ frame_feed /\ frame_in /\ frame_io /\ frame_cfg

\* processFile, lines 261-266, diff mode: nothing to do for equal bytes,
\* otherwise writeTemp(ndata) is called.
DiffMode(w) ==
    /\ pc[w] = "mode"
    /\ mode = "diff"
    /\ IF ~Changed(w)
       THEN /\ pc' = [pc EXCEPT ![w] = "return"]
            /\ loc' = loc
            /\ Ended(w, "ok")
       ELSE /\ pc' = [pc EXCEPT ![w] = "tempFile"]
            /\ loc' = [loc EXCEPT ![w].wt = "out"]
            /\ ended' = ended
    /\ UNCHANGED <<ch, cur, calls, acts>>
    /\ frame_main /\ frame_feed /\ frame_in /\ frame_io /\ frame_cfg

\* writeTemp, lines 309-313: ioutil.TempFile creates a fresh file or fails.
TempFile(w) ==
    /\ pc[w] = "tempFile"
    /\ \E ok \in BOOLEAN :
          IF ok
          THEN /\ tmp' = [tmp EXCEPT ![<<cur[w], loc[w].wt>>].exists = TRUE]
               /\ loc' = [loc EXCEPT ![w].name = <<cur[w], loc[w].wt>>]
               /\ pc' = [pc EXCEPT ![w] = "appendLoad"]
               /\ ended' = ended
          ELSE /\ tmp' = tmp
               /\ loc' = [loc EXCEPT ![w].err = "creating temporary file"]
               /\ pc' = [pc EXCEPT ![w] = "return"]
               /\ Ended(w, "temp error")
    /\ UNCHANGED <<ch, cur, calls, acts, disk, toRemove, shown, diffRan>>
    /\ frame_main /\ frame_feed /\ frame_in /\ frame_cfg

\* writeTemp, line 314, first half: toRemove is read.  The append is not
\* synchronised, so other workers may run between the read and the write.
AppendLoad(w) ==
    /\ pc[w] = "appendLoad"
    /\ loc' = [loc EXCEPT ![w].tr = toRemove]
    /\ pc' = [pc EXCEPT ![w] = "appendStore"]
    /\ UNCHANGED <<ch, cur, calls, acts, ended>>
    /\ frame_main /\ frame_feed /\ frame_in /\ frame_io /\ frame_cfg

\* writeTemp, line 314, second half: the extended slice is stored.
AppendStore(w) ==
    /\ pc[w] = "appendStore"
    /\ toRemove' = Append(loc[w].tr, loc[w].name)
    /\ pc' = [pc EXCEPT ![w] = "tempWrite"]
    /\ UNCHANGED <<ch, cur, loc, calls, acts, ended, disk, tmp, shown, diffRan>>
    /\ frame_main /\ frame_feed /\ frame_in /\ frame_cfg

\* writeTemp, lines 315-320, and its return into processFile, lines 266-278:
\* the data is written or the write fails.  After writeTemp(ndata) the old
\* side of the diff is the file name, or, for an empty file name, a second
\* temporary file holding the data.
TempWrite(w) ==
    /\ pc[w] = "tempWrite"
    /\ \E ok \in BOOLEAN :
          IF ~ok
          THEN /\ tmp' = tmp
               /\ loc' = [loc EXCEPT ![w].err = "writing temporary file"]
               /\ pc' = [pc EXCEPT ![w] = "return"]
               /\ Ended(w, "temp error")
          ELSE IF loc[w].wt = "out"
          THEN /\ tmp' = [tmp EXCEPT ![loc[w].name].bytes = loc[w].ndata]
               /\ ended' = ended
               /\ IF filename(w) = ""
                  THEN /\ loc' = [loc EXCEPT ![w].outfile = loc[w].name, ![w].wt = "in"]
                       /\ pc' = [pc EXCEPT ![w] = "tempFile"]
                  ELSE /\ loc' = [loc EXCEPT ![w].outfile = loc[w].name,
                                             ![w].infile = [temp |-> FALSE,
                                                            name |-> filename(w), id |-> NoName]]
                       /\ pc' = [pc EXCEPT ![w] = "show"]
          ELSE /\ tmp' = [tmp EXCEPT ![loc[w].name].bytes = loc[w].data]
               /\ ended' = ended
               /\ loc' = [loc EXCEPT ![w].infile = [temp |-> TRUE, name |-> "",
                                                   id |-> loc[w].name]]
               /\ pc' = [pc EXCEPT ![w] = "show"]
    /\ UNCHANGED <<ch, cur, calls, acts, disk, toRemove, shown, diffRan>>
    /\ frame_main /\ frame_feed /\ frame_in /\ frame_cfg

\* processFile, line 279: diff.Show(infile, outfile).
Show(w) ==
    /\ pc[w] = "show"
    /\ shown' = shown \cup {[old |-> loc[w].infile, new |-> loc[w].outfile]}
    /\ Acted(w, Act("diff", filename(w), loc[w].ndata, FALSE, <<>>))
    /\ Ended(w, "ok")
    /\ pc' = [pc EXCEPT ![w] = "return"]
    /\ UNCHANGED <<ch, cur, loc, calls, disk, tmp, toRemove, diffRan>>
    /\ frame_main /\ frame_feed /\ frame_in /\ frame_cfg

\* Faulty variant of PipeMode: nothing is written for unchanged input.
PipeMode_OnlyIfChanged(w) ==
    /\ pc[w] = "mode"
    /\ mode = "pipe"
    /\ IF loc[w].data # loc[w].ndata
       THEN Acted(w, Act("stdout", filename(w), loc[w].ndata, FALSE, <<>>))
       ELSE acts' = acts
    /\ Ended(w, "ok")
    /\ pc' = [pc EXCEPT ![w] = "return"]
    /\ UNCHANGED <<ch, cur, loc, calls>>
    /\ frame_main /\ frame_feed /\ frame_in /\ frame_io /\ frame_cfg

\* processFile, lines 281-285, pipe mode: the final bytes go to standard
\* output.
PipeMode(w) ==
    /\ pc[w] = "mode"
    /\ mode = "pipe"
    /\ Acted(w, Act("stdout", filename(w), loc[w].ndata, FALSE, <<>>))
    /\ Ended(w, "ok")
    /\ pc' = [pc EXCEPT ![w] = "return"]
    /\ UNCHANGED <<ch, cur, loc, calls>>
    /\ frame_main /\ frame_feed /\ frame_in /\ frame_io /\ frame_cfg

\* Faulty variant of FixTarget: the first listed file is written.
FixTarget_First(w) == files[1]

\* The file ioutil.WriteFile is called on, line 293.
FixTarget(w) == filename(w)

\* processFile, lines 287-300, fix mode: a file that needs formatting is
\* overwritten.  ioutil.WriteFile succeeds, or fails before touching the
\* file, or fails after truncating it.
FixMode(w) ==
    /\ pc[w] = "mode"
    /\ mode = "fix"
    /\ IF ~Changed(w)
       THEN UNCHANGED <<loc, acts, disk>> /\ Ended(w, "ok")
       ELSE \E outcome \in {"written", "refused", "truncated"} :
               /\ Ended(w, IF outcome = "written" THEN "ok" ELSE "write error")
               /\ disk' = CASE outcome = "written" ->
                                 [disk EXCEPT ![FixTarget(w)] =
                                     [ok |-> TRUE, bytes |-> loc[w].ndata]]
                            [] outcome = "truncated" ->
                                 [disk EXCEPT ![FixTarget(w)] =
                                     [ok |-> TRUE, bytes |-> <<>>]]
                            [] OTHER -> disk
               /\ loc' = IF outcome = "written" THEN loc
                         ELSE [loc EXCEPT ![w].err = "write"]
               /\ acts' = [acts EXCEPT ![cur[w]] =
                             Append(@, Act("write", FixTarget(w), loc[w].ndata, FALSE, <<>>))
                             \o IF outcome = "written" /\ flag.v
                                THEN <<Act("fixed", filename(w), <<>>, FALSE, <<>>)>>
                                ELSE <<>>]
    /\ pc' = [pc EXCEPT ![w] = "return"]
    /\ UNCHANGED <<ch, cur, calls, tmp, toRemove, shown, diffRan>>
    /\ frame_main /\ frame_feed /\ frame_in /\ frame_cfg

\* Faulty variant of ChanCap: the result channel is one result short.
ChanCap_Short == Len(files) - 1

\* The capacity of the result channel, make(chan result, len(files)).
ChanCap == Len(files)

\* The worker's loop body, lines 164-167: processFile returns, its locals
\* are gone, and an error it returned is sent on ch, which holds up to
\* len(files) results.
Return(w) ==
    /\ pc[w] = "return"
    /\ IF loc[w].err # ""
       THEN /\ Len(ch) < ChanCap
            /\ ch' = Append(ch, [file |-> filename(w), err |-> loc[w].err])
       ELSE ch' = ch
    /\ pc' = [pc EXCEPT ![w] = "recv"]
    /\ cur' = [cur EXCEPT ![w] = 0]
    /\ loc' = [loc EXCEPT ![w] = LocInit]
    /\ UNCHANGED <<calls, acts, ended>>
    /\ frame_main /\ frame_feed /\ frame_in /\ frame_io /\ frame_cfg

\* The range over the closed channel `in` ends; wg.Done(), line 169.
WorkerDone(w) ==
    /\ pc[w] = "recv"
    /\ inClosed
    /\ wg' = wg - 1
    /\ pc' = [pc EXCEPT ![w] = "exited"]
    /\ UNCHANGED <<mode, mainpc, exitCode, exitStatus, stderr, files, next, inClosed,
                   ch, chClosed, cur, loc, calls, acts, ended>>
    /\ frame_in /\ frame_io /\ frame_cfg

Next ==
    \/ Main \/ StartWorkers \/ CloseIn \/ WaitClose \/ Report \/ DrainDone
    \/ Cleanup \/ Exit
    \/ \E w \in Workers :
          \/ Feed(w) \/ ReadFile(w) \/ ParseFile(w) \/ FormatBefore(w)
          \/ RewriteFile(w) \/ FormatAfter(w) \/ CheckMode(w) \/ DiffMode(w)
          \/ TempFile(w) \/ AppendLoad(w) \/ AppendStore(w) \/ TempWrite(w)
          \/ Show(w) \/ PipeMode(w) \/ FixMode(w) \/ Return(w) \/ WorkerDone(w)

Spec == Init /\ [][Next]_vars

SpecCli == InitCli /\ [][Next]_vars

\* The steps of the main goroutine and of one worker goroutine.  The Go
\* scheduler lets every goroutine that can run take its next step.
MainStep ==
    Main \/ StartWorkers \/ CloseIn \/ WaitClose \/ Report \/ DrainDone \/ Cleanup \/ Exit

WorkerStep(w) ==
    \/ Feed(w) \/ ReadFile(w) \/ ParseFile(w) \/ FormatBefore(w)
    \/ RewriteFile(w) \/ FormatAfter(w) \/ CheckMode(w) \/ DiffMode(w)
    \/ TempFile(w) \/ AppendLoad(w) \/ AppendStore(w) \/ TempWrite(w)
    \/ Show(w) \/ PipeMode(w) \/ FixMode(w) \/ Return(w) \/ WorkerDone(w)

SpecFair ==
    /\ InitOutcomes /\ [][Next]_vars
    /\ WF_vars(MainStep)
    /\ \A w \in Workers : WF_vars(WorkerStep(w))

\* ------------------------------------------------------- TestCanCreateRules
frame_driver ==
    UNCHANGED <<flag, mode, args, nworker, stdin, disk, DisableRewrites, AllowSort,
                cfgWrites, mainpc, exitCode, exitStatus, files, next, inClosed, ch,
                chClosed, wg, pc, cur, loc, tmp, toRemove, shown, diffRan, stderr,
                calls, acts, ended>>

\* The test calls NewBuildFile, which executes its template on its document
\* into the buffer b, builder.go lines 24-43.
TemplateExecute ==
    /\ genpc = "start"
    /\ b' = Execute(doc)
    /\ genpc' = "executed"
    /\ UNCHANGED <<doc, file, err, rules, tlog>>
    /\ frame_driver /\ frame_log

\* return Parse("generated", b.Bytes()), builder.go line 45, into
\* file, err := NewBuildFile(), builder_test.go line 9.
NewBuildFile ==
    /\ genpc = "executed"
    /\ LET r == ParseTokens("generated", b)
       IN  /\ file' = [nil |-> r.nil, f |-> r.file]
           /\ err' = r.err
    /\ genpc' = "returned"
    /\ UNCHANGED <<doc, b, rules, tlog>>
    /\ frame_driver /\ frame_log

\* builder_test.go lines 10-13: t.Fatal(err) ends the test on an error,
\* otherwise file.Rules("") is ranged over.
TestCheck ==
    /\ genpc = "returned"
    /\ IF err # NilError
       THEN /\ tlog' = Append(tlog, [fatal |-> TRUE, name |-> ""])
            /\ rules' = rules
            /\ genpc' = "failed"
       ELSE /\ tlog' = tlog
            /\ rules' = Rules(file.f, "")
            /\ genpc' = "range"
    /\ UNCHANGED <<doc, b, file, err>>
    /\ frame_driver /\ frame_log

\* builder_test.go line 14: t.Log(r.Name()) for the next rule.
TestLog ==
    /\ genpc = "range"
    /\ rules # <<>>
    /\ tlog' = Append(tlog, [fatal |-> FALSE, name |-> Name(Head(rules))])
    /\ rules' = Tail(rules)
    /\ UNCHANGED <<doc, genpc, b, file, err>>
    /\ frame_driver /\ frame_log

\* The range is over; the test passes.
TestPass ==
    /\ genpc = "range"
    /\ rules = <<>>
    /\ genpc' = "passed"
    /\ UNCHANGED <<doc, b, file, err, rules, tlog>>
    /\ frame_driver /\ frame_log

NextGen == TemplateExecute \/ NewBuildFile \/ TestCheck \/ TestLog \/ TestPass

\* The test on every document of the template's shape; the driver is idle.
InitGen ==
    /\ flag = [showlog |-> FALSE, v |-> FALSE, d |-> FALSE, mode |-> "", path |-> "",
               allowsort |-> "", disable |-> ""]
    /\ args = <<>> /\ nworker = 1 /\ stdin = [ok |-> TRUE, bytes |-> <<>>]
    /\ InitDriver
    /\ doc \in Docs /\ genpc = "start" /\ b = <<>>
    /\ file = [nil |-> TRUE, f |-> NilFile] /\ err = NilError
    /\ rules = <<>> /\ tlog = <<>>
    /\ InitNoLog

SpecGen == InitGen /\ [][NextGen]_vars

\* -------------------------------------------- the log report of check mode
\* The entries a rewrite log can hold: descriptions of changes, any strings.
LogEntries == {"", "dedup", "sort"}

\* sort.Strings(info.Log), line 246, for a log to be shown (line 245).
SortLog ==
    /\ logpc = "start"
    /\ IF Len(info) > 0 /\ flag.showlog
       THEN info' = SortStrings(info) /\ logpc' = "sorted"
       ELSE info' = info /\ logpc' = "printed"
    /\ UNCHANGED <<logIn, logOut>>
    /\ frame_driver /\ frame_gen

\* The loop of lines 247-254 and the line printed, lines 255-257.
UniqLog ==
    /\ logpc = "sorted"
    /\ logOut' = UniqFrom(info, "")
    /\ logpc' = "printed"
    /\ UNCHANGED <<info, logIn>>
    /\ frame_driver /\ frame_gen

NextLog == SortLog \/ UniqLog

\* Check mode, with and without -showlog, on a file that needs formatting,
\* for every log Rewrite can have left.
InitLog ==
    /\ flag \in [showlog : BOOLEAN, v : {FALSE}, d : {FALSE}, mode : {"check"},
                 path : {""}, allowsort : {""}, disable : {""}]
    /\ args = <<>> /\ nworker = 1 /\ stdin = [ok |-> TRUE, bytes |-> <<>>]
    /\ InitDriver /\ InitNoGen
    /\ logIn \in SeqsUpTo(LogEntries, MaxLen)
    /\ info = logIn /\ logOut = <<>> /\ logpc = "start"

SpecLog == InitLog /\ [][NextLog]_vars

\* ================================================================ properties
Pipeline == <<"Parse", "Format", "Rewrite", "Format">>

IsPrefix(s, t) == Len(s) <= Len(t) /\ s = SubSeq(t, 1, Len(s))

\* The build-package calls made for list entry i, in order.
CoreOps(i) == [k \in 1..(Len(calls[i]) - 1) |-> calls[i][k + 1].op]

Kinds(i) == {acts[i][k].kind : k \in 1..Len(acts[i])}

Errors == {"read error", "syntax error", "temp error", "write error"}

\* processFiles has returned to main, which was not ended by a usage error.
Processed == mainpc \in {"cleanup", "exit"} \/ (mainpc = "exited" /\ exitStatus # 2)

\* The bytes a name holds when the program starts.
InitialBytes(name) == IF name = "stdin" THEN stdin.bytes ELSE DiskInit[name].bytes

WithPath(f) == IF flag.path # "" THEN [f EXCEPT !.Path = flag.path] ELSE f

\* The final bytes of a text under the command line's configuration.
FinalBytes(name, bytes) ==
    Format(Rewrite(WithPath(Parse(name, bytes).f),
                   Split(flag.disable), Split(flag.allowsort)).f)

\* C1: every entry of the file list is handed to exactly one worker and
\* processFile is started on it exactly once; every call made for the entry,
\* on the File parsed for it, is made by that one worker; once the feeder is
\* done, every entry has been handed out.
C1_EachFileOnce ==
    /\ \A i \in 1..MaxFiles :
          /\ i >= next => calls[i] = <<>>
          /\ i < next =>
                /\ Len(calls[i]) >= 1
                /\ calls[i][1].op = "processFile"
                /\ \A k \in 2..Len(calls[i]) :
                      calls[i][k].op # "processFile" /\ calls[i][k].w = calls[i][1].w
          /\ \A w \in Workers : cur[w] = i => calls[i][1].w = w
          /\ Cardinality({w \in Workers : cur[w] = i}) <= 1
    /\ next <= Len(files) + 1
    /\ (mainpc = "wait" \/ mainpc = "drain" \/ Processed) => next = Len(files) + 1

\* Two workers have each taken one of two files through the whole pipeline.
C1_Witness ==
    /\ mainpc = "exited" /\ Len(files) = 2 /\ nworker = 2
    /\ CoreOps(1) = Pipeline /\ CoreOps(2) = Pipeline
    /\ calls[1][1].w # calls[2][1].w

\* C2: the build-package calls for a file are Parse, Format, Rewrite, Format,
\* in this order and once each: the calls made so far are always a prefix of
\* that sequence, the whole sequence has been made when the mode is looked at
\* or an output action exists, and a run that did not stop at a read error or
\* at the failed Parse has made all four.
C2_CallOrder ==
    \A i \in 1..MaxFiles :
       /\ IsPrefix(CoreOps(i), Pipeline)
       /\ acts[i] # <<>> => CoreOps(i) = Pipeline
       /\ \A w \in Workers :
             (cur[w] = i /\ pc[w] \in {"mode", "tempFile", "appendLoad", "appendStore",
                                       "tempWrite", "show"})
                => CoreOps(i) = Pipeline
       /\ \A w \in Workers :
             (cur[w] = i /\ pc[w] = "return" /\ ended[i] # "read error"
                /\ Parse(filename(w), loc[w].data).ok)
                => CoreOps(i) = Pipeline
       /\ ended[i] \in {"ok", "temp error", "write error"} => CoreOps(i) = Pipeline

\* A file that parses has gone through the four calls and produced output.
C2_Witness ==
    \E i \in 1..MaxFiles : CoreOps(i) = Pipeline /\ acts[i] # <<>> /\ ended[i] = "ok"

\* C3: the build configuration is assigned once, by main, before any worker
\* runs, and stays what the command line said: it is never assigned twice,
\* and whenever main is past its first step, or a worker is running, or a
\* build-package call has been made, it has been assigned and holds the
\* values of the flags.
C3_ConfigSetOnce ==
    /\ cfgWrites <= 1
    /\ (mainpc # "main" \/ (\E w \in Workers : pc[w] # "idle")
          \/ (\E i \in 1..MaxFiles : calls[i] # <<>>))
          => /\ cfgWrites = 1
             /\ DisableRewrites = Split(flag.disable)
             /\ AllowSort = Split(flag.allowsort)

\* Two workers are both past Rewrite under the configuration set once.
C3_Witness ==
    /\ cfgWrites = 1
    /\ \E v, w \in Workers : v # w /\ pc[v] = "format2" /\ pc[w] = "format2"

\* C4: when processFiles is done, every file whose run ended in an error (a
\* syntax error, a read or write error) has been reported on standard error
\* exactly once, and no other file has been reported.
C4_ErrorsReported ==
    Processed =>
       \A n \in Names \cup {"stdin"} :
          Cardinality({k \in 1..Len(stderr) : stderr[k].file = n})
             = Cardinality({i \in 1..Len(files) : files[i] = n /\ ended[i] \in Errors})

\* C5: a file whose Parse fails gets no Format, no Rewrite and no output
\* action, and it stops nothing else: when processFiles is done, every file
\* of the list has been run to its end, the ones that parse through all four
\* build-package calls.
C5_ParseErrorSkipsOneFile ==
    /\ \A i \in 1..MaxFiles :
          ended[i] = "syntax error" => CoreOps(i) = <<"Parse">> /\ acts[i] = <<>>
    /\ Processed =>
          \A i \in 1..Len(files) :
             /\ ended[i] # ""
             /\ ended[i] = "syntax error" <=> ~Parse(files[i], InitialBytes(files[i])).ok
             /\ ended[i] \notin {"syntax error", "read error"} => CoreOps(i) = Pipeline

\* The file with the syntax error is listed first; the file after it has
\* been processed and has produced its output.
C5_Witness ==
    /\ mainpc = "exited" /\ Len(files) = 2
    /\ ended[1] = "syntax error" /\ ended[2] = "ok" /\ acts[2] # <<>>

\* C6: the exit status is 0 only when every file was processed successfully,
\* 1 when an input had a syntax error, 3 when a file I/O error occurred, and
\* 2, with no file processed, on a usage error.
C6_ExitCodes ==
    mainpc = "exited" =>
       LET syntax == \E i \in 1..MaxFiles : ended[i] = "syntax error"
           io     == \E i \in 1..MaxFiles : ended[i] \in Errors \ {"syntax error"}
           usage  == files = <<>>
       IN  /\ usage => exitStatus = 2 /\ \A i \in 1..MaxFiles : calls[i] = <<>>
           /\ ~usage /\ exitStatus = 0 => ~syntax /\ ~io
           /\ ~usage /\ syntax /\ ~io => exitStatus = 1
           /\ ~usage /\ io /\ ~syntax => exitStatus = 3

\* The run of processFile on a parsed file has reached its end.
AtEnd(w) ==
    /\ cur[w] # 0 /\ pc[w] = "return"
    /\ ended[cur[w]] \notin {"read error", "syntax error"}

\* C7 as stated: in check, diff and fix mode the output action for a parsed
\* file happens if and only if the final bytes differ from the input, and in
\* fix mode the bytes written are the final bytes.
C7_OutputIffChanged ==
    \A w \in Workers :
       AtEnd(w) =>
          LET i == cur[w]
              changed == loc[w].data # loc[w].ndata
          IN  /\ mode = "check" => ("check" \in Kinds(i) <=> changed)
              /\ mode = "diff" => ("diff" \in Kinds(i) <=> changed)
              /\ mode = "fix" =>
                    /\ "write" \in Kinds(i) <=> changed
                    /\ \A k \in 1..Len(acts[i]) :
                          acts[i][k].kind = "write" =>
                             acts[i][k].bytes = loc[w].ndata /\ acts[i][k].name = filename(w)
                    /\ ended[i] = "ok" /\ changed => disk[filename(w)].bytes = loc[w].ndata

\* C7 as amended: as C7, but in diff mode the diff is shown if and only if
\* the final bytes differ from the input and both the creation of and the
\* write to the temporary file succeeded.
C7_OutputIffChangedAndTempWritten ==
    \A w \in Workers :
       AtEnd(w) =>
          LET i == cur[w]
              changed == loc[w].data # loc[w].ndata
          IN  /\ mode = "check" => ("check" \in Kinds(i) <=> changed)
              /\ mode = "diff" => ("diff" \in Kinds(i) <=> changed /\ ended[i] # "temp error")
              /\ mode = "fix" =>
                    /\ "write" \in Kinds(i) <=> changed
                    /\ \A k \in 1..Len(acts[i]) :
                          acts[i][k].kind = "write" =>
                             acts[i][k].bytes = loc[w].ndata /\ acts[i][k].name = filename(w)
                    /\ ended[i] = "ok" /\ changed => disk[filename(w)].bytes = loc[w].ndata

\* A file changed by rewriting alone (its bytes before rewriting equal the
\* input) has been written back in fix mode.
C7_Witness ==
    \E w \in Workers :
       /\ AtEnd(w) /\ mode = "fix" /\ ended[cur[w]] = "ok"
       /\ loc[w].data = loc[w].beforeRewrite /\ loc[w].data # loc[w].ndata
       /\ "write" \in Kinds(cur[w])

\* C8: with no file listed and fix mode, given or by default, the mode is
\* pipe, the input is standard input, no file on disk changes, and when the
\* run of processFile has ended standard output has received the final bytes
\* exactly once if the input was read and parses, and nothing otherwise.
C8_PipeWritesOnce ==
    (args = <<>> /\ ~flag.d /\ flag.mode \in {"", "fix"} /\ mainpc # "main") =>
       /\ mode = "pipe" /\ files = <<"stdin">>
       /\ disk = DiskInit
       /\ \A w \in Workers : (cur[w] = 1 /\ pc[w] # "read") => loc[w].data = stdin.bytes
       /\ ended[1] = "" => acts[1] = <<>>
       /\ ended[1] # "" =>
             acts[1] = IF stdin.ok /\ Parse("stdin", stdin.bytes).ok
                       THEN <<Act("stdout", "stdin", FinalBytes("stdin", stdin.bytes),
                                  FALSE, <<>>)>>
                       ELSE <<>>

\* Input that is already in its final form has been written out.
C8_Witness ==
    /\ mode = "pipe" /\ mainpc = "exited" /\ stdin.bytes # <<>>
    /\ acts[1] = <<Act("stdout", "stdin", stdin.bytes, FALSE, <<>>)>>

\* C9: a step changes a named file only in fix mode, and then it is the step
\* of a worker at its mode switch, and the only file changed is the one that
\* worker is processing.
C9_OnlyFixWritesItsFile ==
    [][\A n \in Names :
          disk'[n] # disk[n] =>
             /\ mode = "fix"
             /\ \E w \in Workers :
                   pc[w] = "mode" /\ pc'[w] = "return" /\ cur[w] # 0 /\ files[cur[w]] = n]_vars

\* In fix mode the second of two listed files has been rewritten while the
\* first holds what it held.
C9_Witness ==
    /\ mode = "fix" /\ Len(files) = 2 /\ files[1] # files[2]
    /\ mainpc = "exited"
    /\ disk[files[1]] = DiskInit[files[1]]
    /\ disk[files[2]] # DiskInit[files[2]]

\* The log check mode prints under -showlog for a rewrite log.
ExpectedLog(log) ==
    IF Len(log) > 0 /\ flag.showlog THEN UniqFrom(SortStrings(log), "") ELSE <<>>

\* The output actions for a name, from what the name held when the program
\* started, the mode, and how the run ended.
ExpectedActs(name, how) ==
    LET init   == InitialBytes(name)
        parsed == WithPath(Parse(name, init).f)
        final  == FinalBytes(name, init)
    IN  CASE mode = "check" ->
               IF init # final
               THEN <<Act("check", name, <<>>, init # Format(parsed),
                          ExpectedLog(Rewrite(parsed, Split(flag.disable),
                                              Split(flag.allowsort)).Log))>>
               ELSE <<>>
          [] mode = "diff" ->
               IF init # final /\ how = "ok"
               THEN <<Act("diff", name, final, FALSE, <<>>)>>
               ELSE <<>>
          [] mode = "fix" ->
               IF init # final
               THEN <<Act("write", name, final, FALSE, <<>>)>>
                    \o IF how = "ok" /\ flag.v
                       THEN <<Act("fixed", name, <<>>, FALSE, <<>>)>>
                       ELSE <<>>
               ELSE <<>>
          [] OTHER -> <<Act("stdout", name, final, FALSE, <<>>)>>

\* The final bytes and the output actions of every list entry are those its
\* name's initial content gives.
DeterminedByContent ==
    /\ \A w \in Workers :
          AtEnd(w) => loc[w].ndata = FinalBytes(filename(w), InitialBytes(filename(w)))
    /\ \A i \in 1..Len(files) :
          /\ ended[i] \notin {"", "read error"} =>
                (ended[i] = "syntax error" <=> ~Parse(files[i], InitialBytes(files[i])).ok)
          /\ ended[i] = "syntax error" => acts[i] = <<>>
          /\ ended[i] \in {"ok", "temp error", "write error"} =>
                acts[i] = ExpectedActs(files[i], ended[i])

\* C10 as stated: for every number of workers and every interleaving, the
\* final bytes computed for a file and the output actions taken for it are
\* those given by the file's content and the configuration alone.
C10_Deterministic == DeterminedByContent

NoFileListedTwice ==
    \A i, j \in 1..Len(files) : i # j => files[i] # files[j]

\* C10 as amended: the same, provided that in fix mode no file is listed
\* more than once (a file listed twice can be read by one worker after
\* another worker has rewritten it).
C10_DeterministicUnlessListedTwice ==
    (mode = "fix" => NoFileListedTwice) => DeterminedByContent

\* Two workers have rewritten two different files in fix mode.
C10_Witness ==
    /\ mode = "fix" /\ mainpc = "exited" /\ nworker = 2
    /\ Len(files) = 2 /\ files[1] # files[2]
    /\ calls[1][1].w # calls[2][1].w
    /\ ended[1] = "ok" /\ ended[2] = "ok"
    /\ acts[1] # <<>> /\ acts[2] # <<>>

\* The positions of a worker after its call of build.Rewrite.
Rewritten == {"format2", "mode", "tempFile", "appendLoad", "appendStore", "tempWrite",
              "show"}

C12_NewBuildFileParses ==
    (doc = CodeDoc /\ genpc \in {"returned", "range", "failed", "passed"}) =>
       /\ err = NilError /\ ~file.nil
       /\ file.f.Path = "generated"
       /\ Len(Rules(file.f, "")) = 1 /\ Rules(file.f, "")[1].v = "go_library"
       /\ genpc # "failed"
       /\ genpc = "passed" => Len(tlog) = 1 /\ ~tlog[1].fatal

\* C13: every temporary file writeTemp has created is recorded in toRemove
\* once the worker that created it is past the append of line 314, whatever
\* the other workers do meanwhile and whether or not the write to the file
\* succeeds, and no temporary file exists any more when the process exits.
C13_TempFilesRemoved ==
    /\ \A n \in TempNames :
          (tmp[n].exists /\ mainpc \notin {"exit", "exited"}
             /\ ~\E w \in Workers :
                   pc[w] \in {"appendLoad", "appendStore"} /\ loc[w].name = n)
             => n \in Range(toRemove)
    /\ mainpc = "exited" => \A n \in TempNames : ~tmp[n].exists

\* C14: in diff mode on standard input, every pair handed to diff.Show has
\* as its old side a temporary file holding the data read from standard
\* input, not a name that is no file on disk, and as its new side the
\* temporary file holding the final bytes.
C14_DiffStdinUsesTemp ==
    (args = <<>> /\ mode = "diff") =>
       \A t \in shown :
          /\ t.old.temp
          /\ t.old.id \in TempNames /\ tmp[t.old.id].bytes = stdin.bytes
          /\ t.new \in TempNames /\ t.new # t.old.id
          /\ tmp[t.new].bytes = FinalBytes("stdin", stdin.bytes)

C16_ReformatMarker ==
    \A i \in 1..Len(files) : \A k \in 1..Len(acts[i]) :
       acts[i][k].kind = "check" =>
          LET init == InitialBytes(files[i])
          IN  /\ acts[i][k].reformat <=> init # Format(Parse(files[i], init).f)
              /\ init = Format(Parse(files[i], init).f) => ~acts[i][k].reformat

\* A formatted file that the rewrite passes change has been printed without
\* the marker.
C16_Witness ==
    \E i \in 1..Len(files) :
       /\ acts[i] # <<>> /\ acts[i][1].kind = "check" /\ ~acts[i][1].reformat
       /\ InitialBytes(files[i]) # FinalBytes(files[i], InitialBytes(files[i]))
       /\ mainpc = "exited"

\* processFiles has been called and has not returned.
InProcessFiles == mainpc \in {"processFiles", "feed", "wait", "drain"}

\* C17: processFiles terminates: under fair scheduling the feeder has
\* eventually delivered every file name, every worker has exited, the
\* WaitGroup is at zero, the result channel is closed and drained and
\* processFiles has returned, for good.  A state in which the feeder and all
\* workers are blocked would be a behaviour that stays in processFiles for
\* ever, so there is none.
C17_ProcessFilesTerminates ==
    <>[](/\ ~InProcessFiles /\ mainpc # "main"
         /\ next = Len(files) + 1
         /\ \A w \in 1..nworker : pc[w] = "exited"
         /\ wg = 0 /\ chClosed /\ ch = <<>>)

\* Two workers have processed two files, an error was sent and reported,
\* and the program has ended.
C17_Witness ==
    /\ mainpc = "exited" /\ nworker = 2 /\ Len(files) = 2
    /\ stderr # <<>>
    /\ \A w \in 1..nworker : pc[w] = "exited"

\* C18: the result channel never holds more than len(files) results; a
\* worker that has a result to send finds room for it, on a channel that is
\* not closed; the channel is closed only when every worker has exited; and
\* results are drained and reported only from the closed channel, when
\* every file of the list has been processed.
C18_ChannelBound ==
    /\ Len(ch) <= Len(files)
    /\ \A w \in Workers :
          (pc[w] = "return" /\ loc[w].err # "") => Len(ch) < ChanCap /\ ~chClosed
    /\ chClosed => \A w \in 1..nworker : pc[w] = "exited"
    /\ (mainpc = "drain" \/ stderr # <<>>) =>
          /\ chClosed
          /\ \A i \in 1..Len(files) : ended[i] # ""

\* Every file of a list of two ended in an error: the channel is full when
\* it is closed.
C18_Witness ==
    /\ chClosed /\ mainpc = "drain"
    /\ Len(files) = 2 /\ Len(ch) = 2

====
